---- MODULE Spec2Model ----
(***************************************************************************)
(* Event correlation engine (rust_core/src/correlator.rs).                 *)
(*                                                                         *)
(* The model keeps the RustCorrelator's fields (events, max_time_delta_ms, *)
(* min_confidence) and the value returned by the last call.  f64 values    *)
(* are modelled as exact rationals extended with NaN, +Infinity and        *)
(* -Infinity; the IEEE rules for the non-finite values are followed, the   *)
(* rounding of finite values is not modelled.                              *)
(***************************************************************************)
EXTENDS Integers, Sequences, FiniteSets, TLC

VARIABLES events, max_time_delta_ms, min_confidence, result, call

vars == <<events, max_time_delta_ms, min_confidence, result, call>>

\* ------------------------------------------------------------------------
\* Bounds of the model
\* ------------------------------------------------------------------------
MaxEvents == 3
MaxTime == 3
MaxBatch == 2

\* ------------------------------------------------------------------------
\* f64: a finite value is the rational n/d (d > 0, lowest terms); the
\* non-finite values carry n = 0, d = 1.
\* ------------------------------------------------------------------------
Abs(x) == IF x < 0 THEN -x ELSE x

RECURSIVE Gcd(_, _)
Gcd(a, b) == IF b = 0 THEN a ELSE Gcd(b, a % b)

NaN == [k |-> "nan", n |-> 0, d |-> 1]
PInf == [k |-> "pinf", n |-> 0, d |-> 1]
NInf == [k |-> "ninf", n |-> 0, d |-> 1]

Fin(num, den) ==
    LET g == Gcd(Abs(num), den)
        h == IF g = 0 THEN 1 ELSE g
    IN  [k |-> "fin", n |-> num \div h, d |-> den \div h]

F(i) == Fin(i, 1)

IsNaN(x) == x.k = "nan"
IsFinite(x) == x.k = "fin"

\* sign of a non-NaN value: -1, 0 or 1
Sign(x) ==
    CASE x.k = "pinf" -> 1
      [] x.k = "ninf" -> -1
      [] OTHER -> IF x.n > 0 THEN 1 ELSE IF x.n < 0 THEN -1 ELSE 0

InfOf(s) == IF s > 0 THEN PInf ELSE NInf

FNeg(x) ==
    CASE x.k = "nan" -> NaN
      [] x.k = "pinf" -> NInf
      [] x.k = "ninf" -> PInf
      [] OTHER -> Fin(-x.n, x.d)

\* a + b
FAdd(a, b) ==
    CASE IsNaN(a) \/ IsNaN(b) -> NaN
      [] IsFinite(a) /\ IsFinite(b) -> Fin(a.n * b.d + b.n * a.d, a.d * b.d)
      [] IsFinite(a) -> b
      [] IsFinite(b) -> a
      [] OTHER -> IF a.k = b.k THEN a ELSE NaN

\* a - b
FSub(a, b) == FAdd(a, FNeg(b))

\* a * b
FMul(a, b) ==
    CASE IsNaN(a) \/ IsNaN(b) -> NaN
      [] IsFinite(a) /\ IsFinite(b) -> Fin(a.n * b.n, a.d * b.d)
      [] OTHER -> IF Sign(a) = 0 \/ Sign(b) = 0 THEN NaN
                  ELSE InfOf(Sign(a) * Sign(b))

\* a / b (a zero divisor is +0.0)
FDiv(a, b) ==
    CASE IsNaN(a) \/ IsNaN(b) -> NaN
      [] IsFinite(a) /\ IsFinite(b) ->
            IF b.n = 0
            THEN IF a.n = 0 THEN NaN ELSE InfOf(Sign(a))
            ELSE IF b.n > 0 THEN Fin(a.n * b.d, a.d * b.n)
                 ELSE Fin(-(a.n * b.d), a.d * (-b.n))
      [] IsFinite(a) -> F(0)
      [] IsFinite(b) -> IF Sign(b) < 0 THEN InfOf(-Sign(a)) ELSE InfOf(Sign(a))
      [] OTHER -> NaN

\* a < b, a > b, a >= b, a <= b: false as soon as one side is NaN
FLt(a, b) ==
    CASE IsNaN(a) \/ IsNaN(b) -> FALSE
      [] IsFinite(a) /\ IsFinite(b) -> a.n * b.d < b.n * a.d
      [] OTHER -> a.k # b.k /\ (a.k = "ninf" \/ b.k = "pinf")

FGt(a, b) == FLt(b, a)
FGe(a, b) == ~IsNaN(a) /\ ~IsNaN(b) /\ ~FLt(a, b)
FLe(a, b) == FGe(b, a)

\* f64::min: when one argument is NaN the other one is returned
FMin(a, b) ==
    IF IsNaN(a) THEN b
    ELSE IF IsNaN(b) THEN a
    ELSE IF FLt(b, a) THEN b ELSE a

\* f64::partial_cmp: None when the two values are unordered
partial_cmp(a, b) ==
    IF IsNaN(a) \/ IsNaN(b) THEN "None"
    ELSE IF FLt(a, b) THEN "Less"
    ELSE IF FLt(b, a) THEN "Greater"
    ELSE "Equal"

\* ------------------------------------------------------------------------
\* Event type tags.  Event.event_type is a free string: besides the five
\* tags of EventType the model carries three tags the code does not know.
\* ------------------------------------------------------------------------
UI_INTERACTION == "UI_INTERACTION"
API_CALL == "API_CALL"
API_RESPONSE == "API_RESPONSE"
NAVIGATION == "NAVIGATION"
SCREEN_CHANGE == "SCREEN_CHANGE"

EventType == {UI_INTERACTION, API_CALL, API_RESPONSE, NAVIGATION, SCREEN_CHANGE}

UnknownTags == {"ui interaction", "api_call", "CUSTOM"}

Tags == EventType \cup UnknownTags

\* event_type.to_uppercase().replace(' ', "_"), tabulated over Tags
normalize_event_type(event_type) ==
    CASE event_type = "ui interaction" -> "UI_INTERACTION"
      [] event_type = "api_call" -> "API_CALL"
      [] OTHER -> event_type

\* format!("{}_{}", a, b)
format_type(a, b) == a \o "_" \o b

\* should_correlate matching the normalized tags
should_correlate_normalized(source_type, target_type) ==
    <<normalize_event_type(source_type), normalize_event_type(target_type)>> \in
        {<<"UI_INTERACTION", "API_CALL">>, <<"API_CALL", "API_RESPONSE">>,
         <<"API_RESPONSE", "NAVIGATION">>, <<"API_RESPONSE", "SCREEN_CHANGE">>,
         <<"UI_INTERACTION", "NAVIGATION">>}

\* should_correlate matching a pair in either direction
should_correlate_symmetric(source_type, target_type) ==
    \E p \in {<<"UI_INTERACTION", "API_CALL">>, <<"API_CALL", "API_RESPONSE">>,
              <<"API_RESPONSE", "NAVIGATION">>, <<"API_RESPONSE", "SCREEN_CHANGE">>,
              <<"UI_INTERACTION", "NAVIGATION">>} :
        {source_type, target_type} = {p[1], p[2]}

\* Check if two event types should be correlated
should_correlate(source_type, target_type) ==
    \/ (source_type = "UI_INTERACTION" /\ target_type = "API_CALL")
    \/ (source_type = "API_CALL" /\ target_type = "API_RESPONSE")
    \/ (source_type = "API_RESPONSE" /\ target_type = "NAVIGATION")
    \/ (source_type = "API_RESPONSE" /\ target_type = "SCREEN_CHANGE")
    \/ (source_type = "UI_INTERACTION" /\ target_type = "NAVIGATION")

are_compatible_types(source_type, target_type) ==
    should_correlate(source_type, target_type)

\* ------------------------------------------------------------------------
\* Events and their data maps
\* ------------------------------------------------------------------------
EmptyData == <<>>

\* Event::new: the data map starts empty
NewEvent(event_id, event_type, timestamp) ==
    [event_id |-> event_id, event_type |-> event_type,
     timestamp |-> timestamp, data |-> EmptyData]

\* Event::add_data: self.data.insert(key, value)
add_data(event, key, value) ==
    [event EXCEPT !.data =
        [k \in DOMAIN event.data \cup {key} |->
            IF k = key THEN value ELSE event.data[k]]]

\* The correlator as a value: the three fields of RustCorrelator
Self == [events |-> events, max_time_delta_ms |-> max_time_delta_ms,
         min_confidence |-> min_confidence]

\* the share of the source's keys that the target matches
calculate_data_similarity_allkeys(source, target) ==
    IF DOMAIN source.data = {} \/ DOMAIN target.data = {} THEN F(0)
    ELSE LET common_keys == {key \in DOMAIN source.data : key \in DOMAIN target.data}
             matches == {key \in common_keys : source.data[key] = target.data[key]}
         IN  IF common_keys = {} THEN F(0)
             ELSE FDiv(F(Cardinality(matches)), F(Cardinality(DOMAIN source.data)))

\* Calculate data similarity between events
calculate_data_similarity(source, target) ==
    IF DOMAIN source.data = {} \/ DOMAIN target.data = {} THEN F(0)
    ELSE LET common_keys == {key \in DOMAIN source.data : key \in DOMAIN target.data}
             matches == {key \in common_keys : source.data[key] = target.data[key]}
         IN  IF common_keys = {} THEN F(0)
             ELSE FDiv(F(Cardinality(matches)), F(Cardinality(common_keys)))

\* calculate_confidence with the type bonus weighted by 0.3
calculate_confidence_weighted_bonus(self, source, target, time_delta) ==
    LET time_score == FSub(F(1), FDiv(time_delta, self.max_time_delta_ms))
        c1 == FAdd(F(0), FMul(time_score, Fin(4, 10)))
        c2 == IF are_compatible_types(source.event_type, target.event_type)
              THEN FAdd(c1, FMul(Fin(3, 10), Fin(3, 10))) ELSE c1
        data_score == calculate_data_similarity(source, target)
        c3 == FAdd(c2, FMul(data_score, Fin(3, 10)))
    IN  FMin(c3, F(1))

\* calculate_confidence with a clamp at 0 as well
calculate_confidence_clamp01(self, source, target, time_delta) ==
    LET time_score == FSub(F(1), FDiv(time_delta, self.max_time_delta_ms))
        c1 == FAdd(F(0), FMul(time_score, Fin(4, 10)))
        c2 == IF are_compatible_types(source.event_type, target.event_type)
              THEN FAdd(c1, Fin(3, 10)) ELSE c1
        data_score == calculate_data_similarity(source, target)
        c3 == FAdd(c2, FMul(data_score, Fin(3, 10)))
        c4 == FMin(c3, F(1))
    IN  IF FLt(c4, F(0)) THEN F(0) ELSE c4

\* Calculate correlation confidence score
calculate_confidence(self, source, target, time_delta) ==
    LET time_score == FSub(F(1), FDiv(time_delta, self.max_time_delta_ms))
        c1 == FAdd(F(0), FMul(time_score, Fin(4, 10)))
        c2 == IF are_compatible_types(source.event_type, target.event_type)
              THEN FAdd(c1, Fin(3, 10)) ELSE c1
        data_score == calculate_data_similarity(source, target)
        c3 == FAdd(c2, FMul(data_score, Fin(3, 10)))
    IN  FMin(c3, F(1))

\* ------------------------------------------------------------------------
\* The sort of correlate_events.  slice::sort_by sorts a short slice (up to
\* 20 elements) by insertion: each element moves left past the elements
\* it compares Less than.  A panic in the comparator ends the sort.
\* ------------------------------------------------------------------------
unwrap_or(opt, default) == IF opt = "None" THEN default ELSE opt

unwrap(opt) == IF opt = "None" THEN "Panic" ELSE opt

compare_unwrap(a, b) == unwrap(partial_cmp(a.timestamp, b.timestamp))

\* the closure given to sort_by: NaN compares Greater from either side
compare(a, b) == unwrap_or(partial_cmp(a.timestamp, b.timestamp), "Greater")

Front(s) == SubSeq(s, 1, Len(s) - 1)
Last(s) == s[Len(s)]

RECURSIVE insert_tail(_, _)
insert_tail(sorted, x) ==
    IF sorted = <<>> THEN [ok |-> TRUE, v |-> <<x>>]
    ELSE LET c == compare(x, Last(sorted))
         IN  IF c = "Panic" THEN [ok |-> FALSE, v |-> Append(sorted, x)]
             ELSE IF c = "Less"
                  THEN LET r == insert_tail(Front(sorted), x)
                       IN  [ok |-> r.ok, v |-> Append(r.v, Last(sorted))]
                  ELSE [ok |-> TRUE, v |-> Append(sorted, x)]

RECURSIVE sort_by(_)
sort_by(v) ==
    IF Len(v) <= 1 THEN [ok |-> TRUE, v |-> v]
    ELSE LET p == sort_by(Front(v))
         IN  IF ~p.ok THEN [ok |-> FALSE, v |-> Append(p.v, Last(v))]
             ELSE insert_tail(p.v, Last(v))

\* ------------------------------------------------------------------------
\* correlate_events: the scan over the sorted snapshot
\* ------------------------------------------------------------------------
Correlation(source, target, confidence, time_delta, correlation_type) ==
    [source_event_id |-> source.event_id,
     target_event_id |-> target.event_id,
     confidence |-> confidence,
     time_delta_ms |-> time_delta,
     correlation_type |-> correlation_type]

\* the inner loop leaving at the first pair that should not be correlated
RECURSIVE scan_targets_break_on_type(_, _, _)
scan_targets_break_on_type(self, source, targets) ==
    IF targets = <<>> THEN <<>>
    ELSE LET target == Head(targets)
             time_delta == FSub(target.timestamp, source.timestamp)
         IN  IF FGt(time_delta, self.max_time_delta_ms) THEN <<>>
             ELSE IF ~should_correlate(source.event_type, target.event_type)
                  THEN <<>>
             ELSE LET confidence ==
                          calculate_confidence(self, source, target, time_delta)
                      correlation_type ==
                          format_type(normalize_event_type(source.event_type),
                                      normalize_event_type(target.event_type))
                  IN  IF FGe(confidence, self.min_confidence)
                      THEN <<Correlation(source, target, confidence,
                                         time_delta, correlation_type)>>
                           \o scan_targets_break_on_type(self, source, Tail(targets))
                      ELSE scan_targets_break_on_type(self, source, Tail(targets))

\* the inner loop: the targets after the source, up to the break
RECURSIVE scan_targets(_, _, _)
scan_targets(self, source, targets) ==
    IF targets = <<>> THEN <<>>
    ELSE LET target == Head(targets)
             time_delta == FSub(target.timestamp, source.timestamp)
         IN  IF FGt(time_delta, self.max_time_delta_ms) THEN <<>>
             ELSE IF ~should_correlate(source.event_type, target.event_type)
                  THEN scan_targets(self, source, Tail(targets))
             ELSE LET confidence ==
                          calculate_confidence(self, source, target, time_delta)
                      correlation_type ==
                          format_type(normalize_event_type(source.event_type),
                                      normalize_event_type(target.event_type))
                  IN  IF FGe(confidence, self.min_confidence)
                      THEN <<Correlation(source, target, confidence,
                                         time_delta, correlation_type)>>
                           \o scan_targets(self, source, Tail(targets))
                      ELSE scan_targets(self, source, Tail(targets))

\* the outer loop over the sources
RECURSIVE scan_sources(_, _)
scan_sources(self, sorted_events) ==
    IF sorted_events = <<>> THEN <<>>
    ELSE scan_targets(self, Head(sorted_events), Tail(sorted_events))
         \o scan_sources(self, Tail(sorted_events))

\* Internal: correlate all events
correlate_events(self) ==
    LET sorted_events == sort_by(self.events)
    IN  IF ~sorted_events.ok THEN [status |-> "panic", value |-> <<>>]
        ELSE [status |-> "ok", value |-> scan_sources(self, sorted_events.v)]

\* ------------------------------------------------------------------------
\* The directional views: both scan self.events in insertion order, every
\* source of the wanted type against every target of the wanted types.
\* ------------------------------------------------------------------------
\* the inner loop of a directional view
RECURSIVE view_targets(_, _, _, _, _)
view_targets(self, source, candidates, target_types, label) ==
    IF candidates = <<>> THEN <<>>
    ELSE LET target == Head(candidates)
             rest == view_targets(self, source, Tail(candidates), target_types, label)
             time_delta == FSub(target.timestamp, source.timestamp)
         IN  IF target.event_type \notin target_types THEN rest
             ELSE IF FLt(time_delta, F(0)) \/ FGt(time_delta, self.max_time_delta_ms)
                  THEN rest
             ELSE LET confidence ==
                          calculate_confidence(self, source, target, time_delta)
                  IN  IF FGe(confidence, self.min_confidence)
                      THEN <<Correlation(source, target, confidence, time_delta, label)>>
                           \o rest
                      ELSE rest

\* the outer loop of a directional view
RECURSIVE view_sources(_, _, _, _, _)
view_sources(self, remaining, source_type, target_types, label) ==
    IF remaining = <<>> THEN <<>>
    ELSE LET source == Head(remaining)
             rest == view_sources(self, Tail(remaining), source_type, target_types, label)
         IN  IF source.event_type # source_type THEN rest
             ELSE view_targets(self, source, self.events, target_types, label) \o rest

\* Correlate UI interactions with API calls
correlate_ui_to_api(self) ==
    [status |-> "ok",
     value |-> view_sources(self, self.events, "UI_INTERACTION", {"API_CALL"},
                            "UI_TO_API")]

\* Correlate API responses with navigation changes
correlate_api_to_navigation(self) ==
    [status |-> "ok",
     value |-> view_sources(self, self.events, "API_RESPONSE",
                            {"NAVIGATION", "SCREEN_CHANGE"}, "API_TO_NAVIGATION")]

\* ------------------------------------------------------------------------
\* The calls of calculate_confidence: the <<source, target, time_delta>> a
\* scan reaches the call with, in the order of the calls.
\* ------------------------------------------------------------------------
RECURSIVE scored_targets(_, _, _)
scored_targets(self, source, targets) ==
    IF targets = <<>> THEN <<>>
    ELSE LET target == Head(targets)
             time_delta == FSub(target.timestamp, source.timestamp)
         IN  IF FGt(time_delta, self.max_time_delta_ms) THEN <<>>
             ELSE IF ~should_correlate(source.event_type, target.event_type)
                  THEN scored_targets(self, source, Tail(targets))
             ELSE <<<<source, target, time_delta>>>>
                  \o scored_targets(self, source, Tail(targets))

RECURSIVE scored_sources(_, _)
scored_sources(self, sorted_events) ==
    IF sorted_events = <<>> THEN <<>>
    ELSE scored_targets(self, Head(sorted_events), Tail(sorted_events))
         \o scored_sources(self, Tail(sorted_events))

RECURSIVE scored_view_targets(_, _, _, _)
scored_view_targets(self, source, candidates, target_types) ==
    IF candidates = <<>> THEN <<>>
    ELSE LET target == Head(candidates)
             rest == scored_view_targets(self, source, Tail(candidates), target_types)
             time_delta == FSub(target.timestamp, source.timestamp)
         IN  IF target.event_type \notin target_types THEN rest
             ELSE IF FLt(time_delta, F(0)) \/ FGt(time_delta, self.max_time_delta_ms)
                  THEN rest
             ELSE <<<<source, target, time_delta>>>> \o rest

RECURSIVE scored_view_sources(_, _, _, _)
scored_view_sources(self, remaining, source_type, target_types) ==
    IF remaining = <<>> THEN <<>>
    ELSE LET source == Head(remaining)
             rest == scored_view_sources(self, Tail(remaining), source_type, target_types)
         IN  IF source.event_type # source_type THEN rest
             ELSE scored_view_targets(self, source, self.events, target_types) \o rest

\* the calls made by correlate_events and by the two directional views
confidence_calls(self) ==
    LET sorted_events == sort_by(self.events)
    IN  (IF sorted_events.ok THEN scored_sources(self, sorted_events.v) ELSE <<>>)
        \o scored_view_sources(self, self.events, "UI_INTERACTION", {"API_CALL"})
        \o scored_view_sources(self, self.events, "API_RESPONSE",
                               {"NAVIGATION", "SCREEN_CHANGE"})

\* ------------------------------------------------------------------------
\* The views derived from correlate_events
\* ------------------------------------------------------------------------
\* a fold that keeps one edge per target
RECURSIVE fold_graph_dedup(_, _)
fold_graph_dedup(graph, correlations) ==
    IF correlations = <<>> THEN graph
    ELSE LET corr == Head(correlations)
             key == corr.source_event_id
             old == IF key \in DOMAIN graph THEN graph[key] ELSE <<>>
             seen == \E i \in DOMAIN old : old[i] = corr.target_event_id
             new == [k \in DOMAIN graph \cup {key} |->
                        IF k = key
                        THEN IF seen THEN old ELSE Append(old, corr.target_event_id)
                        ELSE graph[k]]
         IN  fold_graph_dedup(new, Tail(correlations))

\* graph.entry(source).or_insert_with(Vec::new).push(target), folded over
\* the correlations in their order
RECURSIVE fold_graph(_, _)
fold_graph(graph, correlations) ==
    IF correlations = <<>> THEN graph
    ELSE LET corr == Head(correlations)
             key == corr.source_event_id
             old == IF key \in DOMAIN graph THEN graph[key] ELSE <<>>
             new == [k \in DOMAIN graph \cup {key} |->
                        IF k = key THEN Append(old, corr.target_event_id)
                        ELSE graph[k]]
         IN  fold_graph(new, Tail(correlations))

\* *by_type.entry(correlation_type).or_insert(0) += 1
RECURSIVE count_by_type(_, _)
count_by_type(by_type, correlations) ==
    IF correlations = <<>> THEN by_type
    ELSE LET key == Head(correlations).correlation_type
             old == IF key \in DOMAIN by_type THEN by_type[key] ELSE 0
             new == [k \in DOMAIN by_type \cup {key} |->
                        IF k = key THEN old + 1 ELSE by_type[k]]
         IN  count_by_type(new, Tail(correlations))

\* iter().map(field).sum::<f64>()
RECURSIVE sum_confidence(_)
sum_confidence(correlations) ==
    IF correlations = <<>> THEN F(0)
    ELSE FAdd(sum_confidence(Front(correlations)), Last(correlations).confidence)

RECURSIVE sum_time_delta(_)
sum_time_delta(correlations) ==
    IF correlations = <<>> THEN F(0)
    ELSE FAdd(sum_time_delta(Front(correlations)), Last(correlations).time_delta_ms)

EmptyMap == <<>>

build_correlation_graph(self) ==
    LET correlations == correlate_events(self)
    IN  IF correlations.status # "ok"
        THEN [status |-> correlations.status, value |-> EmptyMap]
        ELSE [status |-> "ok", value |-> fold_graph(EmptyMap, correlations.value)]

\* get_statistics dividing by the count without testing it
get_statistics_unguarded(self) ==
    LET correlations == correlate_events(self)
        total == Len(correlations.value)
    IN  IF correlations.status # "ok"
        THEN [status |-> correlations.status, value |-> EmptyMap]
        ELSE [status |-> "ok",
              value |-> [total_correlations |-> total,
                         avg_confidence |->
                             FDiv(sum_confidence(correlations.value), F(total)),
                         avg_time_delta_ms |->
                             FDiv(sum_time_delta(correlations.value), F(total)),
                         by_type |-> count_by_type(EmptyMap, correlations.value)]]

get_statistics(self) ==
    LET correlations == correlate_events(self)
        total == Len(correlations.value)
        avg_confidence ==
            IF total > 0 THEN FDiv(sum_confidence(correlations.value), F(total))
            ELSE F(0)
        avg_time_delta ==
            IF total > 0 THEN FDiv(sum_time_delta(correlations.value), F(total))
            ELSE F(0)
    IN  IF correlations.status # "ok"
        THEN [status |-> correlations.status, value |-> EmptyMap]
        ELSE [status |-> "ok",
              value |-> [total_correlations |-> total,
                         avg_confidence |-> avg_confidence,
                         avg_time_delta_ms |-> avg_time_delta,
                         by_type |-> count_by_type(EmptyMap, correlations.value)]]

\* ------------------------------------------------------------------------
\* State machine: one RustCorrelator and the value its last call returned
\* ------------------------------------------------------------------------
Returned(op, r) == [op |-> op, status |-> r.status, value |-> r.value]

Unit == [status |-> "ok", value |-> <<>>]

NoCall == [fn |-> "none", args |-> <<>>, ret |-> FALSE]

\* RustCorrelator::new(max_time_delta_ms, min_confidence)
New(max, minc) ==
    /\ events = <<>>
    /\ max_time_delta_ms = max
    /\ min_confidence = minc
    /\ result = Returned("new", Unit)
    /\ call = NoCall

\* add_event refusing an event whose id the store already holds
add_event_unique(event) ==
    /\ Len(events) < MaxEvents
    /\ events' = IF \E i \in DOMAIN events : events[i].event_id = event.event_id
                 THEN events ELSE Append(events, event)
    /\ result' = Returned("add_event", Unit)
    /\ UNCHANGED <<max_time_delta_ms, min_confidence, call>>

add_event(event) ==
    /\ Len(events) < MaxEvents
    /\ events' = Append(events, event)
    /\ result' = Returned("add_event", Unit)
    /\ UNCHANGED <<max_time_delta_ms, min_confidence, call>>

clear ==
    /\ events' = <<>>
    /\ result' = Returned("clear", Unit)
    /\ UNCHANGED <<max_time_delta_ms, min_confidence, call>>

find_correlations_take ==
    /\ result' = Returned("find_correlations", correlate_events(Self))
    /\ events' = <<>>
    /\ UNCHANGED <<max_time_delta_ms, min_confidence, call>>

\* find_correlations sorting self.events itself instead of a clone
find_correlations_in_place ==
    /\ result' = Returned("find_correlations", correlate_events(Self))
    /\ events' = sort_by(events).v
    /\ UNCHANGED <<max_time_delta_ms, min_confidence, call>>

find_correlations ==
    /\ result' = Returned("find_correlations", correlate_events(Self))
    /\ UNCHANGED <<events, max_time_delta_ms, min_confidence, call>>

BuildCorrelationGraph ==
    /\ result' = Returned("build_correlation_graph", build_correlation_graph(Self))
    /\ UNCHANGED <<events, max_time_delta_ms, min_confidence, call>>

GetStatistics ==
    /\ result' = Returned("get_statistics", get_statistics(Self))
    /\ UNCHANGED <<events, max_time_delta_ms, min_confidence, call>>

CorrelateUiToApi ==
    /\ result' = Returned("correlate_ui_to_api", correlate_ui_to_api(Self))
    /\ UNCHANGED <<events, max_time_delta_ms, min_confidence, call>>

CorrelateApiToNavigation ==
    /\ result' = Returned("correlate_api_to_navigation",
                          correlate_api_to_navigation(Self))
    /\ UNCHANGED <<events, max_time_delta_ms, min_confidence, call>>

\* an item of the list given to add_events that is no Event: extract() fails
NotAnEvent == [not_an_event |-> TRUE]

\* the loop of add_events: every item is pushed until one fails to extract
RECURSIVE push_items(_, _)
push_items(store, items) ==
    IF items = <<>> THEN [status |-> "ok", events |-> store]
    ELSE IF Head(items) = NotAnEvent THEN [status |-> "error", events |-> store]
    ELSE push_items(Append(store, Head(items)), Tail(items))

add_events(items) ==
    /\ Len(events) + Len(items) <= MaxEvents
    /\ LET pushed == push_items(events, items)
       IN  /\ events' = pushed.events
           /\ result' = Returned("add_events",
                                 [status |-> pushed.status, value |-> <<>>])
    /\ UNCHANGED <<max_time_delta_ms, min_confidence, call>>

len ==
    /\ result' = Returned("len", [status |-> "ok", value |-> Len(events)])
    /\ UNCHANGED <<events, max_time_delta_ms, min_confidence, call>>

\* the private helpers, called on their own
CallShouldCorrelate(source_type, target_type) ==
    /\ call' = [fn |-> "should_correlate", args |-> <<source_type, target_type>>,
                ret |-> should_correlate(source_type, target_type)]
    /\ UNCHANGED <<events, max_time_delta_ms, min_confidence, result>>

CallAreCompatibleTypes(source_type, target_type) ==
    /\ call' = [fn |-> "are_compatible_types", args |-> <<source_type, target_type>>,
                ret |-> are_compatible_types(source_type, target_type)]
    /\ UNCHANGED <<events, max_time_delta_ms, min_confidence, result>>

CallCalculateConfidence(source, target, time_delta) ==
    /\ call' = [fn |-> "calculate_confidence", args |-> <<source, target, time_delta>>,
                ret |-> calculate_confidence(Self, source, target, time_delta)]
    /\ UNCHANGED <<events, max_time_delta_ms, min_confidence, result>>

CallCalculateDataSimilarity(source, target) ==
    /\ call' = [fn |-> "calculate_data_similarity", args |-> <<source, target>>,
                ret |-> calculate_data_similarity(source, target)]
    /\ UNCHANGED <<events, max_time_delta_ms, min_confidence, result>>

\* ------------------------------------------------------------------------
\* Spec: events of two types that may be correlated (UI_INTERACTION before
\* API_CALL), at every timestamp of Timestamps, the non-finite ones
\* included, under a window of 0 and a window of 2.  The caller numbers its events e1, e2, ...
\* ------------------------------------------------------------------------
Timestamps == {F(t) : t \in 0..MaxTime} \cup {NaN, PInf, NInf}

Windows == {F(0), F(2)}

FreshId == "e" \o ToString(Len(events) + 1)

Init == \E max \in Windows : New(max, Fin(1, 2))

Next ==
    \/ \E event_type \in {UI_INTERACTION, API_CALL}, timestamp \in Timestamps :
          add_event(NewEvent(FreshId, event_type, timestamp))
    \/ clear
    \/ find_correlations
    \/ BuildCorrelationGraph
    \/ GetStatistics

Spec == Init /\ [][Next]_vars

\* ------------------------------------------------------------------------
\* SpecTypes: events of every type of EventType and of one unknown type, at
\* two finite timestamps and at NaN.
\* ------------------------------------------------------------------------
InitTypes == New(F(1), Fin(1, 2)) \/ New(PInf, F(0))

NextTypes ==
    \/ \E event_type \in EventType \cup {"CUSTOM"}, timestamp \in {F(0), F(1), NaN} :
          add_event(NewEvent(FreshId, event_type, timestamp))
    \/ clear
    \/ find_correlations

SpecTypes == InitTypes /\ [][NextTypes]_vars

\* ------------------------------------------------------------------------
\* SpecFinite: the two types of Spec at finite timestamps only, window 2
\* ------------------------------------------------------------------------
InitFinite == New(F(2), Fin(1, 2))

NextFinite ==
    \/ \E event_type \in {UI_INTERACTION, API_CALL}, t \in 0..MaxTime :
          add_event(NewEvent(FreshId, event_type, F(t)))
    \/ clear
    \/ find_correlations

SpecFinite == InitFinite /\ [][NextFinite]_vars

\* ------------------------------------------------------------------------
\* SpecScenario: the events of the spec's scenarios 1 and 2: UI_INTERACTION
\* and NAVIGATION events at 1000 and 1100, without data or with one
\* "screen" entry, under the default window 5000 and threshold 0.5.
\* ------------------------------------------------------------------------
InitScenario == New(F(5000), Fin(1, 2))

NextScenario ==
    \/ \E event_type \in {UI_INTERACTION, NAVIGATION},
          timestamp \in {F(1000), F(1100)} :
          \/ add_event(NewEvent(FreshId, event_type, timestamp))
          \/ \E screen \in {"A", "B"} :
                add_event(add_data(NewEvent(FreshId, event_type, timestamp),
                                   "screen", screen))
    \/ clear
    \/ find_correlations

SpecScenario == InitScenario /\ [][NextScenario]_vars

\* ------------------------------------------------------------------------
\* SpecStore: every operation of the correlator; the caller chooses the ids
\* among two, so that events share ids, and hands add_events lists of up to
\* MaxBatch items, one of which may be no Event.
\* ------------------------------------------------------------------------
StoreUniverse ==
    {NewEvent(id, event_type, timestamp) :
        id \in {"a", "b"}, event_type \in {UI_INTERACTION, API_CALL},
        timestamp \in {F(0), F(1)}}
    \cup {NewEvent("a", API_RESPONSE, F(0)), NewEvent("b", NAVIGATION, F(1))}

BatchItems ==
    {NewEvent("a", UI_INTERACTION, F(0)), NewEvent("a", API_CALL, F(1)), NotAnEvent}

Batches == UNION {[1..n -> BatchItems] : n \in 0..MaxBatch}

InitStore == New(F(2), Fin(1, 2))

NextStore ==
    \/ \E event \in StoreUniverse : add_event(event)
    \/ \E items \in Batches : add_events(items)
    \/ clear
    \/ len
    \/ find_correlations
    \/ CorrelateUiToApi
    \/ CorrelateApiToNavigation
    \/ BuildCorrelationGraph
    \/ GetStatistics

SpecStore == InitStore /\ [][NextStore]_vars

\* ------------------------------------------------------------------------
\* SpecPair: two correlators, A and B, built with different windows and
\* operated in any interleaving. Here every variable holds one value per
\* instance: events[i], max_time_delta_ms[i], min_confidence[i], result[i].
\* ------------------------------------------------------------------------
Instances == {"A", "B"}

\* the fields of instance i
SelfOf(i) == [events |-> events[i], max_time_delta_ms |-> max_time_delta_ms[i],
              min_confidence |-> min_confidence[i]]

\* an operation other than on instance i leaves i's value of a variable alone
OnlyOn(i, old, new) == [j \in Instances |-> IF j = i THEN new ELSE old[j]]

\* add_event on a store that every instance shares
AddEventOnShared(i, event) ==
    /\ \A j \in Instances : Len(events[j]) < MaxEvents
    /\ events' = [j \in Instances |-> Append(events[j], event)]
    /\ result' = OnlyOn(i, result, Returned("add_event", Unit))
    /\ UNCHANGED <<max_time_delta_ms, min_confidence, call>>

AddEventOn(i, event) ==
    /\ Len(events[i]) < MaxEvents
    /\ events' = OnlyOn(i, events, Append(events[i], event))
    /\ result' = OnlyOn(i, result, Returned("add_event", Unit))
    /\ UNCHANGED <<max_time_delta_ms, min_confidence, call>>

ClearOn(i) ==
    /\ events' = OnlyOn(i, events, <<>>)
    /\ result' = OnlyOn(i, result, Returned("clear", Unit))
    /\ UNCHANGED <<max_time_delta_ms, min_confidence, call>>

FindCorrelationsOn(i) ==
    /\ result' = OnlyOn(i, result,
                        Returned("find_correlations", correlate_events(SelfOf(i))))
    /\ UNCHANGED <<events, max_time_delta_ms, min_confidence, call>>

PairUniverse(i) ==
    {NewEvent("e" \o ToString(Len(events[i]) + 1), tt[1], tt[2]) :
        tt \in {<<UI_INTERACTION, F(0)>>, <<API_CALL, F(0)>>, <<API_CALL, F(1)>>}}

InitPair ==
    /\ events = [i \in Instances |-> <<>>]
    /\ max_time_delta_ms = [i \in Instances |-> IF i = "A" THEN F(2) ELSE F(1)]
    /\ min_confidence = [i \in Instances |-> Fin(1, 2)]
    /\ result = [i \in Instances |-> Returned("new", Unit)]
    /\ call = NoCall

NextPair ==
    \E i \in Instances :
        \/ \E event \in PairUniverse(i) : AddEventOn(i, event)
        \/ ClearOn(i)
        \/ FindCorrelationsOn(i)

SpecPair == InitPair /\ [][NextPair]_vars

\* ------------------------------------------------------------------------
\* SpecScore: the two scoring helpers applied to a pair on the allow-list
\* and a pair off it, the data maps holding up to two keys, at time deltas inside the window, outside it,
\* negative and not finite, for a window of 2 and a window of 0.
\* ------------------------------------------------------------------------
\* an event after add_data for each entry of a list of <<key, value>>
RECURSIVE with_data(_, _)
with_data(event, entries) ==
    IF entries = <<>> THEN event
    ELSE with_data(add_data(event, Head(entries)[1], Head(entries)[2]), Tail(entries))

DataEntries ==
    {<<>>, <<<<"screen", "A">>>>, <<<<"screen", "B">>>>, <<<<"user", "A">>>>}
    \cup {<<<<"screen", "A">>, <<"user", value>>>> : value \in {"A", "B"}}

TimeDeltas == {F(-1), F(0), F(1), F(2), F(4), NaN, PInf}

InitScore == \E max \in {F(2), F(0)} : New(max, Fin(1, 2))

NextScore ==
    \E source_type \in {UI_INTERACTION, API_CALL},
       target_type \in {API_CALL},
       source_data \in DataEntries, target_data \in DataEntries :
        LET source == with_data(NewEvent("s", source_type, F(0)), source_data)
            target == with_data(NewEvent("t", target_type, F(0)), target_data)
        IN  \/ \E time_delta \in TimeDeltas :
                  CallCalculateConfidence(source, target, time_delta)
            \/ CallCalculateDataSimilarity(source, target)

SpecScore == InitScore /\ [][NextScore]_vars

\* ------------------------------------------------------------------------
\* SpecViews: the two directional views and find_correlations on stores of
\* the four types the views select, timestamps 0, 1 and NaN, window 1.
\* ------------------------------------------------------------------------
InitViews == New(F(1), Fin(1, 2))

NextViews ==
    \/ \E event_type \in {UI_INTERACTION, API_CALL, API_RESPONSE, NAVIGATION},
          timestamp \in {F(0), F(1), NaN} :
          add_event(NewEvent(FreshId, event_type, timestamp))
    \/ clear
    \/ find_correlations
    \/ CorrelateUiToApi
    \/ CorrelateApiToNavigation

SpecViews == InitViews /\ [][NextViews]_vars

\* ------------------------------------------------------------------------
\* SpecPure: the type rule applied to every pair of tags
\* ------------------------------------------------------------------------
InitPure == New(F(1), Fin(1, 2))

NextPure ==
    \E source_type \in Tags, target_type \in Tags :
        \/ CallShouldCorrelate(source_type, target_type)
        \/ CallAreCompatibleTypes(source_type, target_type)

SpecPure == InitPure /\ [][NextPure]_vars

\* ------------------------------------------------------------------------
\* Properties
\* ------------------------------------------------------------------------
AllowList ==
    {<<"UI_INTERACTION", "API_CALL">>, <<"API_CALL", "API_RESPONSE">>,
     <<"API_RESPONSE", "NAVIGATION">>, <<"API_RESPONSE", "SCREEN_CHANGE">>,
     <<"UI_INTERACTION", "NAVIGATION">>}

Range(s) == {s[i] : i \in 1..Len(s)}

\* the last call was find_correlations and returned a list
Found == result.op = "find_correlations" /\ result.status = "ok"

StoreEvents == Range(events)

HasTimestamp(ts) == \E e \in StoreEvents : e.timestamp = ts

EventsWithId(id) == {e \in StoreEvents : e.event_id = id}

Pairs(correlations) ==
    {<<c.source_event_id, c.target_event_id>> : c \in Range(correlations)}

\* C1: every correlation returned by find_correlations has
\* time_delta_ms >= 0 and 0 <= confidence <= 1.
C1_DeltaAndConfidenceInRange ==
    Found =>
        \A c \in Range(result.value) :
            /\ FGe(c.time_delta_ms, F(0))
            /\ FGe(c.confidence, F(0))
            /\ FLe(c.confidence, F(1))

\* C2: no correlation returned by find_correlations has an event with a
\* NaN timestamp as its source or as its target.
C2_NoNaNEventCorrelated ==
    Found =>
        \A c \in Range(result.value) :
            \A e \in EventsWithId(c.source_event_id)
                     \cup EventsWithId(c.target_event_id) :
                ~IsNaN(e.timestamp)

\* the store without the event at position p
Without(evs, p) == SubSeq(evs, 1, p - 1) \o SubSeq(evs, p + 1, Len(evs))

\* C3: in a store of two events with finite timestamps and one event with a
\* NaN timestamp, at any position, find_correlations returns every
\* correlation it returns for the two finite events alone.
C3_NaNSuppressesNothing ==
    (Found /\ Len(events) = 3) =>
        \A p \in 1..3 :
            LET rest == Without(events, p)
                alone == correlate_events([Self EXCEPT !.events = rest]).value
            IN  (/\ IsNaN(events[p].timestamp)
                 /\ \A e \in Range(rest) : IsFinite(e.timestamp))
                => Range(alone) \subseteq Range(result.value)

\* C4: find_correlations, build_correlation_graph and get_statistics return
\* a result, without a panic, whatever the timestamps in the store are.
C4_QueriesAreTotal ==
    /\ result.status = "ok"
    /\ Found => Len(result.value) * 2 <= Len(events) * (Len(events) - 1)

C4_Witness ==
    /\ result.op = "get_statistics"
    /\ result.status = "ok"
    /\ HasTimestamp(NaN) /\ HasTimestamp(PInf) /\ HasTimestamp(NInf)

\* C5: under a finite window, no correlation returned by find_correlations
\* has an event with timestamp +Infinity as its source.
C5_NoInfiniteSource ==
    (Found /\ IsFinite(max_time_delta_ms)) =>
        \A c \in Range(result.value) :
            \A e \in EventsWithId(c.source_event_id) : e.timestamp # PInf

\* C6: should_correlate(a, b) is true exactly for the five pairs of the
\* allow-list; in particular it is false for a pair of equal tags.
C6_ShouldCorrelateIsAllowList ==
    call.fn = "should_correlate" =>
        /\ call.ret = (<<call.args[1], call.args[2]>> \in AllowList)
        /\ (call.args[1] = call.args[2] => call.ret = FALSE)

C6_Witness ==
    /\ call.fn = "should_correlate"
    /\ call.args = <<"API_RESPONSE", "SCREEN_CHANGE">>
    /\ call.ret = TRUE

\* C7: every correlation returned by find_correlations joins a source and a
\* target whose types are a pair of the allow-list and is labelled with the
\* two types; a store whose events all have one type yields no correlation.
C7_OnlyAllowListedPairs ==
    Found =>
        /\ \A c \in Range(result.value) :
              \E s \in EventsWithId(c.source_event_id),
                 t \in EventsWithId(c.target_event_id) :
                  /\ <<s.event_type, t.event_type>> \in AllowList
                  /\ c.correlation_type = s.event_type \o "_" \o t.event_type
        /\ (\A e1 \in StoreEvents, e2 \in StoreEvents : e1.event_type = e2.event_type)
              => result.value = <<>>

C7_Witness ==
    /\ Found
    /\ Len(events) = 3
    /\ Len(result.value) = 1
    /\ \E e \in StoreEvents : e.event_type = "CUSTOM"
    /\ \A e \in StoreEvents : e.timestamp = F(0)

\* C8: a call of find_correlations that follows a call of find_correlations,
\* with no add_event or clear in between, returns the same list and leaves
\* the store as it was.
C8_Deterministic ==
    [][(result.op = "find_correlations" /\ result'.op = "find_correlations")
          => (result' = result /\ events' = events)]_vars

C8_Witness ==
    /\ Found
    /\ Len(result.value) >= 2
    /\ HasTimestamp(NaN)

\* the store in the insertion order given by the permutation p of 1..Len
Permuted(evs, p) == [i \in 1..Len(evs) |-> evs[p[i]]]

\* C9: find_correlations returns the same set of (source, target) pairs for
\* every insertion order of the events of the store.
C9_OrderIndependent ==
    Found =>
        \A p \in Permutations(1..Len(events)) :
            Pairs(correlate_events([Self EXCEPT !.events = Permuted(events, p)]).value)
                = Pairs(result.value)

\* 0.4 * (1 - d / max_time_delta_ms) + 0.3
C10_Expected(d) ==
    FAdd(FMul(Fin(4, 10), FSub(F(1), FDiv(d, max_time_delta_ms))), Fin(3, 10))

\* C10: for a store of one UI_INTERACTION event at t and one API_CALL event
\* at t + d, 0 <= d <= max_time_delta_ms, both without data, find_correlations
\* returns exactly the correlation UI -> API with time_delta_ms = d and
\* confidence 0.4 * (1 - d / max_time_delta_ms) + 0.3, if that is at least
\* min_confidence.
C10_SingleUiApiPair ==
    (Found /\ Len(events) = 2) =>
        \A u \in StoreEvents, a \in StoreEvents :
            LET d == FSub(a.timestamp, u.timestamp)
            IN  (/\ u.event_type = "UI_INTERACTION" /\ a.event_type = "API_CALL"
                 /\ IsFinite(u.timestamp) /\ IsFinite(a.timestamp)
                 /\ u.data = EmptyData /\ a.data = EmptyData
                 /\ FGe(d, F(0)) /\ FLe(d, max_time_delta_ms)
                 /\ FGe(C10_Expected(d), min_confidence))
                => result.value =
                      <<[source_event_id |-> u.event_id,
                         target_event_id |-> a.event_id,
                         confidence |-> C10_Expected(d),
                         time_delta_ms |-> d,
                         correlation_type |-> "UI_INTERACTION_API_CALL"]>>

\* the store holds exactly the two events of scenario 2, in either order
C11_Store ==
    LET u == add_data(NewEvent("e1", "UI_INTERACTION", F(1000)), "screen", "A")
        n == add_data(NewEvent("e2", "NAVIGATION", F(1100)), "screen", "A")
        n1 == add_data(NewEvent("e1", "NAVIGATION", F(1100)), "screen", "A")
        u2 == add_data(NewEvent("e2", "UI_INTERACTION", F(1000)), "screen", "A")
    IN  events = <<u, n>> \/ events = <<n1, u2>>

C11_Correlation(confidence) ==
    LET u == CHOOSE e \in StoreEvents : e.event_type = "UI_INTERACTION"
        n == CHOOSE e \in StoreEvents : e.event_type = "NAVIGATION"
    IN  [source_event_id |-> u.event_id, target_event_id |-> n.event_id,
         confidence |-> confidence, time_delta_ms |-> F(100),
         correlation_type |-> "UI_INTERACTION_NAVIGATION"]

C11_Similarity ==
    LET u == CHOOSE e \in StoreEvents : e.event_type = "UI_INTERACTION"
        n == CHOOSE e \in StoreEvents : e.event_type = "NAVIGATION"
    IN  calculate_data_similarity(u, n)

\* C11 as stated: for UI_INTERACTION at 1000 and NAVIGATION at 1100, both
\* with screen = A, find_correlations returns the correlation UI ->
\* NAVIGATION with data similarity 1 and confidence exactly 1.
C11_ConfidenceIsOne ==
    (Found /\ C11_Store) =>
        /\ C11_Similarity = F(1)
        /\ result.value = <<C11_Correlation(F(1))>>

\* C11 amended: for the same two events find_correlations returns the
\* correlation UI -> NAVIGATION with data similarity 1 and confidence
\* 0.992 = 0.4 * 0.98 + 0.3 + 0.3, which is below the upper clamp.
C11_ConfidenceBelowClamp ==
    (Found /\ C11_Store) =>
        /\ C11_Similarity = F(1)
        /\ result.value = <<C11_Correlation(Fin(992, 1000))>>
        /\ FLt(result.value[1].confidence, F(1))

C11_Witness == Found /\ C11_Store /\ Len(result.value) = 1

\* the last call was get_statistics and returned a record
Counted == result.op = "get_statistics" /\ result.status = "ok"

\* C12: when the store yields no correlation (it is empty, was just cleared,
\* or holds no eligible pair), get_statistics returns total_correlations = 0,
\* avg_confidence = 0, avg_time_delta_ms = 0 and an empty by_type map.
C12_EmptyStatistics ==
    (result.op = "get_statistics" /\ correlate_events(Self).value = <<>>) =>
        /\ result.status = "ok"
        /\ result.value.total_correlations = 0
        /\ result.value.avg_confidence = F(0)
        /\ result.value.avg_time_delta_ms = F(0)
        /\ DOMAIN result.value.by_type = {}

C12_Witness ==
    /\ Counted
    /\ Len(events) >= 2
    /\ result.value.total_correlations = 0
    /\ result.value.avg_confidence = F(0)

\* the target ids of the correlations whose source id is s, in their order
RECURSIVE TargetsOf(_, _)
TargetsOf(s, correlations) ==
    IF correlations = <<>> THEN <<>>
    ELSE (IF Head(correlations).source_event_id = s
          THEN <<Head(correlations).target_event_id>> ELSE <<>>)
         \o TargetsOf(s, Tail(correlations))

RECURSIVE SumOfLengths(_, _)
SumOfLengths(graph, keys) ==
    IF keys = {} THEN 0
    ELSE LET k == CHOOSE x \in keys : TRUE
         IN  Len(graph[k]) + SumOfLengths(graph, keys \ {k})

Graphed == result.op = "build_correlation_graph" /\ result.status = "ok"

\* C13: the graph returned by build_correlation_graph has exactly the source
\* ids of correlate_events' output as keys; the list under a key is the
\* subsequence of the target ids of that source id's correlations, in
\* discovery order with repeats kept; the list lengths sum to the number of
\* correlations.
C13_GraphIsFold ==
    Graphed =>
        LET correlations == correlate_events(Self).value
            graph == result.value
        IN  /\ DOMAIN graph =
                  {correlations[i].source_event_id : i \in DOMAIN correlations}
            /\ \A s \in DOMAIN graph : graph[s] = TargetsOf(s, correlations)
            /\ SumOfLengths(graph, DOMAIN graph) = Len(correlations)

\* two events share the id of a key whose list repeats a target
C13_Witness ==
    /\ Graphed
    /\ \E s \in DOMAIN result.value :
          /\ \E i, j \in DOMAIN events :
                i # j /\ events[i].event_id = s /\ events[j].event_id = s
          /\ \E i, j \in DOMAIN result.value[s] :
                i # j /\ result.value[s][i] = result.value[s][j]

\* the items of a list up to its first item that is no Event
Accepted(items) ==
    LET bad == {i \in DOMAIN items : items[i] = NotAnEvent}
        n == IF bad = {} THEN Len(items)
             ELSE (CHOOSE i \in bad : \A j \in bad : i <= j) - 1
    IN  SubSeq(items, 1, n)

\* C14: add_event appends its event at the end and raises the length by 1,
\* whatever ids the store holds; add_events appends the items of its list in
\* the given order (all of them when it succeeds, those before the first
\* item that is no Event when it fails); clear empties the store; len
\* returns the number of stored events and leaves the store alone.
C14_EventStore ==
    [][/\ result'.op = "add_event" =>
             /\ \E event \in StoreUniverse : events' = Append(events, event)
             /\ Len(events') = Len(events) + 1
       /\ result'.op = "add_events" =>
             \E items \in Batches :
                 /\ events' = events \o Accepted(items)
                 /\ result'.status = "ok" <=> Accepted(items) = items
                 /\ result'.status = "ok" => events' = events \o items
       /\ result'.op = "clear" => events' = <<>> /\ Len(events') = 0
       /\ result'.op = "len" =>
             /\ result'.status = "ok"
             /\ result'.value = Len(events)
             /\ events' = events]_vars

\* len returned 3 for a store filled by add_event and a batch, holding an id twice
C14_Witness ==
    /\ result.op = "len"
    /\ result.value = 3
    /\ Len(events) = 3
    /\ \E i, j \in DOMAIN events : i # j /\ events[i].event_id = events[j].event_id

Queries ==
    {"find_correlations", "correlate_ui_to_api", "correlate_api_to_navigation",
     "build_correlation_graph", "get_statistics"}

\* what a query computes from a correlator
QueryOf(op, self) ==
    CASE op = "find_correlations" -> correlate_events(self)
      [] op = "correlate_ui_to_api" -> correlate_ui_to_api(self)
      [] op = "correlate_api_to_navigation" -> correlate_api_to_navigation(self)
      [] op = "build_correlation_graph" -> build_correlation_graph(self)
      [] op = "get_statistics" -> get_statistics(self)

\* C15: no step changes max_time_delta_ms or min_confidence; a query step
\* leaves the event list unchanged and returns what the query computes from
\* the events the store holds at the call, whatever was added, cleared or
\* queried before.
C15_DerivedNotStored ==
    [][/\ max_time_delta_ms' = max_time_delta_ms
       /\ min_confidence' = min_confidence
       /\ result'.op \in Queries =>
             /\ events' = events
             /\ result' = Returned(result'.op, QueryOf(result'.op, Self))]_vars

\* a directional view answered from a store that is not in timestamp order
C15_Witness ==
    /\ result.op = "correlate_ui_to_api"
    /\ Len(result.value) >= 1
    /\ Len(events) >= 2
    /\ FGt(events[1].timestamp, events[2].timestamp)

\* a step of one correlator on its own, read off the fields of instance i
AloneStep(i) ==
    /\ max_time_delta_ms'[i] = max_time_delta_ms[i]
    /\ min_confidence'[i] = min_confidence[i]
    /\ \/ /\ \E event \in PairUniverse(i) : events'[i] = Append(events[i], event)
          /\ result'[i] = Returned("add_event", Unit)
       \/ /\ events'[i] = <<>>
          /\ result'[i] = Returned("clear", Unit)
       \/ /\ events'[i] = events[i]
          /\ result'[i] = Returned("find_correlations", correlate_events(SelfOf(i)))

Untouched(i) ==
    /\ events'[i] = events[i]
    /\ max_time_delta_ms'[i] = max_time_delta_ms[i]
    /\ min_confidence'[i] = min_confidence[i]
    /\ result'[i] = result[i]

\* C16: every step of the two correlators is a step one of them would take
\* alone, computed from its own fields, and leaves the events, thresholds
\* and last result of the other as they were; so what A returns is what it
\* returns when B's operations are left out, and the same for B.
C16_InstancesIndependent ==
    [][\E i \in Instances :
          /\ AloneStep(i)
          /\ \A j \in Instances \ {i} : Untouched(j)]_vars

\* both hold the same events and answered the query differently
C16_Witness ==
    /\ events["A"] = events["B"]
    /\ result["A"].op = "find_correlations"
    /\ result["B"].op = "find_correlations"
    /\ Len(result["A"].value) = 1
    /\ result["B"].value = <<>>

\* C17: in the sequence the sort at the start of correlate_events yields,
\* finite timestamps ascend, every -Infinity event precedes all others and
\* every NaN event comes after all events that are not NaN.
C17_SortPlacesNaNLast ==
    LET sorted == sort_by(events).v
    IN  \A i, j \in DOMAIN sorted :
            i < j =>
                /\ (IsFinite(sorted[i].timestamp) /\ IsFinite(sorted[j].timestamp))
                       => FLe(sorted[i].timestamp, sorted[j].timestamp)
                /\ sorted[j].timestamp = NInf => sorted[i].timestamp = NInf
                /\ IsNaN(sorted[i].timestamp) => IsNaN(sorted[j].timestamp)

Clamp01(x) == IF FLt(x, F(0)) THEN F(0) ELSE IF FGt(x, F(1)) THEN F(1) ELSE x

Scored == call.fn = "calculate_confidence"

\* the time score, and the data similarity, of the call held in call
CallTimeScore == FSub(F(1), FDiv(call.args[3], max_time_delta_ms))
CallSimilarity == calculate_data_similarity(call.args[1], call.args[2])
CallOnAllowList == <<call.args[1].event_type, call.args[2].event_type>> \in AllowList

\* C18 as stated: calculate_confidence is
\* clamp01(0.4 * time_score + 0.3 * type_bonus + 0.3 * data_similarity) with
\* type_bonus 0.3 on the allow-list and 0 off it, clamped at 0 and at 1.
C18_WeightedBonusClamp01 ==
    Scored =>
        LET type_bonus == IF CallOnAllowList THEN Fin(3, 10) ELSE F(0)
        IN  call.ret = Clamp01(FAdd(FAdd(FMul(Fin(4, 10), CallTimeScore),
                                         FMul(Fin(3, 10), type_bonus)),
                                    FMul(Fin(3, 10), CallSimilarity)))

\* C18 amended: calculate_confidence is the sum
\* 0.4 * time_score + type_bonus + 0.3 * data_similarity, the type bonus 0.3
\* added unweighted, cut at 1.0 from above only: a sum below 0 is returned
\* as it is and a sum that is NaN gives 1.0; for 0 <= time_delta <= window
\* with a positive window the result lies in [0, 1].
C18_UnweightedBonusUpperClamp ==
    Scored =>
        LET type_bonus == IF CallOnAllowList THEN Fin(3, 10) ELSE F(0)
            sum == FAdd(FAdd(FMul(Fin(4, 10), CallTimeScore), type_bonus),
                        FMul(Fin(3, 10), CallSimilarity))
        IN  /\ call.ret = (IF IsNaN(sum) \/ FGt(sum, F(1)) THEN F(1) ELSE sum)
            /\ (/\ FGt(max_time_delta_ms, F(0))
                /\ FGe(call.args[3], F(0))
                /\ FLe(call.args[3], max_time_delta_ms))
                   => FGe(call.ret, F(0)) /\ FLe(call.ret, F(1))

\* an allow-listed pair without data, half the window apart: 0.4 * 0.5 + 0.3
C18_Witness ==
    /\ Scored
    /\ CallOnAllowList
    /\ max_time_delta_ms = F(2)
    /\ call.args[3] = F(1)
    /\ DOMAIN call.args[1].data = {}
    /\ call.ret = Fin(1, 2)

Compared == call.fn = "calculate_data_similarity"

\* the keys both events of the call carry, and those with equal values
CommonKeys == DOMAIN call.args[1].data \cap DOMAIN call.args[2].data
MatchingKeys == {key \in CommonKeys : call.args[1].data[key] = call.args[2].data[key]}

\* C20: calculate_data_similarity returns the number of shared keys with
\* equal values over the number of shared keys, and 0 when a map is empty
\* or no key is shared; the result is in [0, 1] and does not depend on which
\* event is the source.
C20_SimilarityIsMatchShare ==
    Compared =>
        /\ IsFinite(call.ret)
        /\ CommonKeys = {} => call.ret = F(0)
        /\ CommonKeys # {} =>
              call.ret.n * Cardinality(CommonKeys)
                  = Cardinality(MatchingKeys) * call.ret.d
        /\ 0 <= call.ret.n /\ call.ret.n <= call.ret.d
        /\ call.ret = calculate_data_similarity(call.args[2], call.args[1])

\* one of the two shared keys has equal values
C20_Witness ==
    /\ Compared
    /\ Cardinality(CommonKeys) = 2
    /\ Cardinality(MatchingKeys) = 1
    /\ call.ret = Fin(1, 2)

\* C19: every call of calculate_confidence made by correlate_events or by a
\* directional view passes a time delta >= 0 whose time score
\* 1 - time_delta / max_time_delta_ms lies in (0, 1], and the time score of
\* a pair with equal timestamps is 1, a window of 0 included.
C19_TimeScoreInRange ==
    LET calls == confidence_calls(Self)
    IN  \A i \in DOMAIN calls :
            LET source == calls[i][1]
                target == calls[i][2]
                time_delta == calls[i][3]
                time_score == FSub(F(1), FDiv(time_delta, max_time_delta_ms))
            IN  /\ FGe(time_delta, F(0))
                /\ FGt(time_score, F(0)) /\ FLe(time_score, F(1))
                /\ partial_cmp(source.timestamp, target.timestamp) = "Equal"
                       => time_score = F(1)

\* the timestamp of the stored event with an id (the ids of a store are distinct)
TimestampOf(id) == (CHOOSE e \in StoreEvents : e.event_id = id).timestamp

\* C21: in the list returned by find_correlations the source timestamps of
\* consecutive correlations do not decrease, and among the consecutive
\* correlations of one source the target timestamps do not decrease.
C21_DiscoveryOrder ==
    Found =>
        \A i \in 1..(Len(result.value) - 1) :
            LET c1 == result.value[i]
                c2 == result.value[i + 1]
            IN  /\ FLe(TimestampOf(c1.source_event_id), TimestampOf(c2.source_event_id))
                /\ c1.source_event_id = c2.source_event_id =>
                      FLe(TimestampOf(c1.target_event_id),
                          TimestampOf(c2.target_event_id))

\* the pairs of stored events of the given types whose delta lies in the
\* window and whose confidence reaches min_confidence
WindowedPairs(source_types, target_types) ==
    {<<u.event_id, a.event_id>> : <<u, a>> \in
        {p \in StoreEvents \X StoreEvents :
            LET time_delta == FSub(p[2].timestamp, p[1].timestamp)
            IN  /\ p[1].event_type \in source_types
                /\ p[2].event_type \in target_types
                /\ FGe(time_delta, F(0))
                /\ FLe(time_delta, max_time_delta_ms)
                /\ FGe(calculate_confidence(Self, p[1], p[2], time_delta),
                       min_confidence)}}

\* the pairs find_correlations returns for the given types
CorrelatedPairs(source_types, target_types) ==
    {<<c.source_event_id, c.target_event_id>> : c \in
        {c \in Range(correlate_events(Self).value) :
            /\ \E e \in EventsWithId(c.source_event_id) : e.event_type \in source_types
            /\ \E e \in EventsWithId(c.target_event_id) : e.event_type \in target_types}}

FiniteStore == \A e \in StoreEvents : IsFinite(e.timestamp)

ViewIsWindowedPairs(source_types, target_types) ==
    /\ result.status = "ok"
    /\ Pairs(result.value) = WindowedPairs(source_types, target_types)
    /\ \A c \in Range(result.value) : FGe(c.time_delta_ms, F(0))
    /\ FiniteStore =>
          Pairs(result.value) = CorrelatedPairs(source_types, target_types)

\* C22: correlate_ui_to_api returns exactly the pairs of a UI_INTERACTION
\* and an API_CALL event of the store with 0 <= delta <= max_time_delta_ms
\* and confidence >= min_confidence, correlate_api_to_navigation those of an
\* API_RESPONSE and a NAVIGATION or SCREEN_CHANGE event; no returned delta
\* is negative or NaN; on a store of finite timestamps the pairs are those
\* find_correlations returns for the same types.
C22_ViewsAreWindowedPairs ==
    /\ result.op = "correlate_ui_to_api" =>
          ViewIsWindowedPairs({"UI_INTERACTION"}, {"API_CALL"})
    /\ result.op = "correlate_api_to_navigation" =>
          ViewIsWindowedPairs({"API_RESPONSE"}, {"NAVIGATION", "SCREEN_CHANGE"})

\* the number of correlations of a list labelled with a type
CountOfType(correlations, t) ==
    Cardinality({i \in DOMAIN correlations : correlations[i].correlation_type = t})

RECURSIVE SumOfCounts(_, _)
SumOfCounts(by_type, keys) ==
    IF keys = {} THEN 0
    ELSE LET k == CHOOSE x \in keys : TRUE
         IN  by_type[k] + SumOfCounts(by_type, keys \ {k})

\* C23: get_statistics agrees with correlate_events on the same store:
\* total_correlations is the number of correlations, by_type has one entry
\* per distinct correlation_type and its counts sum to the total, and when
\* the total is positive the averages are the sums of confidence and of
\* time_delta_ms over the total, avg_confidence within [0, 1] and
\* avg_time_delta_ms within [0, max_time_delta_ms].
C23_StatisticsAgree ==
    Counted =>
        LET correlations == correlate_events(Self).value
            stats == result.value
            total == Len(correlations)
        IN  /\ stats.total_correlations = total
            /\ DOMAIN stats.by_type =
                  {correlations[i].correlation_type : i \in DOMAIN correlations}
            /\ \A t \in DOMAIN stats.by_type :
                  stats.by_type[t] = CountOfType(correlations, t)
            /\ SumOfCounts(stats.by_type, DOMAIN stats.by_type) = total
            /\ total > 0 =>
                  /\ stats.avg_confidence =
                        FDiv(sum_confidence(correlations), F(total))
                  /\ stats.avg_time_delta_ms =
                        FDiv(sum_time_delta(correlations), F(total))
                  /\ FGe(stats.avg_confidence, F(0))
                  /\ FLe(stats.avg_confidence, F(1))
                  /\ FGe(stats.avg_time_delta_ms, F(0))
                  /\ FLe(stats.avg_time_delta_ms, max_time_delta_ms)

\* a pair of the sorted sequence is inside the window, on the allow-list
\* and confident enough
Emits(source, target) ==
    LET time_delta == FSub(target.timestamp, source.timestamp)
    IN  /\ FLe(time_delta, max_time_delta_ms)
        /\ <<source.event_type, target.event_type>> \in AllowList
        /\ FGe(calculate_confidence(Self, source, target, time_delta), min_confidence)

\* the scan over all positions i < j of v, never leaving the inner loop early
RECURSIVE ScanAllPairs(_, _, _)
ScanAllPairs(v, i, j) ==
    IF i > Len(v) THEN <<>>
    ELSE IF j > Len(v) THEN ScanAllPairs(v, i + 1, i + 2)
    ELSE (IF Emits(v[i], v[j])
          THEN LET time_delta == FSub(v[j].timestamp, v[i].timestamp)
               IN  <<Correlation(v[i], v[j],
                                 calculate_confidence(Self, v[i], v[j], time_delta),
                                 time_delta,
                                 format_type(v[i].event_type, v[j].event_type))>>
          ELSE <<>>)
         \o ScanAllPairs(v, i, j + 1)

\* C24: on a store of finite timestamps find_correlations returns the
\* correlations of all positions i < j of the sorted sequence whose delta is
\* at most max_time_delta_ms, whose types are on the allow-list and whose
\* confidence reaches min_confidence, in the order of the positions: the
\* break loses none; every returned time_delta_ms is at most
\* max_time_delta_ms.
C24_BreakLosesNothing ==
    (Found /\ FiniteStore) =>
        /\ result.value = ScanAllPairs(sort_by(events).v, 1, 2)
        /\ \A c \in Range(result.value) : FLe(c.time_delta_ms, max_time_delta_ms)

\* the scan left the inner loop at a pair outside the window, after a
\* correlation of the same source
C24_Witness ==
    /\ Found
    /\ FiniteStore
    /\ LET v == sort_by(events).v
       IN  \E i, j, k \in DOMAIN v :
               /\ i < j /\ j < k
               /\ Emits(v[i], v[j])
               /\ v[i].event_id = result.value[1].source_event_id
               /\ FGt(FSub(v[k].timestamp, v[i].timestamp), max_time_delta_ms)

====
